---- MODULE Spec2Model ----
(***************************************************************************)
(* Model of Phaser.Physics.Matter.Components.SetBody                       *)
(* (src/physics/matter-js/components/SetBody.js).                          *)
(*                                                                         *)
(* The component is mixed into Game Objects ("entities").  setBody         *)
(* resolves a shape config against the entity, builds a Matter body        *)
(* through the geometry factory and hands it to setExistingBody, which     *)
(* swaps the entity's body, wires the parts' gameObject back-references,   *)
(* installs the destroy closure, adds the body to the world and shifts     *)
(* the origin.  setExistingBody is modelled statement by statement (pc),   *)
(* the program being single threaded: while a call is in progress only     *)
(* its next statement is enabled.                                          *)
(***************************************************************************)
EXTENDS Integers, Sequences, FiniteSets, TLC

\* ---------------------------------------------------------------- bounds
MaxBodies == 2      \* body handles that can be created in one behaviour
MaxParts  == 2      \* parts of a body (part 1 is the body itself)
MaxOrigin == 2      \* cap of an origin coordinate

\* ------------------------------------------------------------- universe
Entities == {"e1", "e2"}
Bodies   == 1 .. MaxBodies
NoBody   == 0                       \* this.body not set
Null     == "null"                  \* gameObject / destroy not set

\* the Game Objects of the scene: e1 is 40x20 with the origin component,
\* e2 is 10x10 without it
HasOriginComponent(e) == e = "e1"
InitWidth(e)    == IF e = "e1" THEN 40 ELSE 10
InitHeight(e)   == IF e = "e1" THEN 20 ELSE 10
InitTempVec2(e) == IF e = "e1" THEN [x |-> 100, y |-> 200] ELSE [x |-> 0, y |-> 0]

\* the bodies the geometry library can hand out: a single-part body, a
\* compound body, and a single-part placeholder marked 'temp'
BodyKinds == {[parts |-> 1, temp |-> FALSE, centerOffset |-> [x |-> 1, y |-> 0]],
              [parts |-> 2, temp |-> FALSE, centerOffset |-> [x |-> 0, y |-> 1]],
              [parts |-> 1, temp |-> TRUE,  centerOffset |-> [x |-> 0, y |-> 1]]}

VARIABLES
    body,          \* body[e]: this.body of entity e
    world,         \* bodies that are members of this.world
    gameObject,    \* gameObject[b][i]: body.parts[i-1].gameObject
    destroy,       \* destroy[b]: the _this captured by body.destroy, or Null
    parts,         \* parts[b]: body.parts.length (0: handle not created)
    temp,          \* temp[b]: body.hasOwnProperty('temp')
    centerOffset,  \* centerOffset[b]
    vertices,      \* vertices[b]: the body's vertex list
    origin,        \* origin[e]: originX / originY
    width, height, tempVec2,   \* entity size and physics position
    nextBody,      \* next unused body handle
    pc,            \* statement about to run: "idle" between calls, "return"
                   \* when a call has run its last statement
    call           \* the call in progress (NoCall between calls)

vars == <<body, world, gameObject, destroy, parts, temp, centerOffset,
          vertices, origin, width, height, tempVec2, nextBody, pc, call>>

bodyAttrs  == <<parts, temp, centerOffset, vertices>>
entitySize == <<width, height, tempVec2>>

Created == 1 .. (nextBody - 1)

\* body.parts: Matter keeps the body itself as parts[0]
Parts(b) == 1 .. parts[b]
Self == 1

\* ------------------------------------------------------- config values
\* A property of a config object: absent, explicitly undefined, or a value.
Absent    == [has |-> "absent", v |-> 0]
Undefined == [has |-> "undefined", v |-> 0]
Val(v)    == [has |-> "value", v |-> v]

FieldNames == {"type", "x", "y", "width", "height", "radius", "maxSides",
               "slope", "sides", "verts", "flagInternal", "removeCollinear",
               "minimumArea", "addToWorld"}

EmptyFields == [k \in FieldNames |-> Absent]

\* the values setBody can be given as config
NullConfig      == [tag |-> "null", str |-> "", f |-> EmptyFields]
UndefinedConfig == [tag |-> "undefined", str |-> "", f |-> EmptyFields]
StringConfig(s) == [tag |-> "string", str |-> s, f |-> EmptyFields]
ObjectConfig(f) == [tag |-> "object", str |-> "", f |-> f]

\* a vertex source: a path string (its numbers, in order), a raw array of
\* points, or null
PathVerts(nums) == [kind |-> "path", nums |-> nums, pts |-> <<>>]
RawVerts(pts)   == [kind |-> "raw", nums |-> <<>>, pts |-> pts]
NullVerts       == [kind |-> "null", nums |-> <<>>, pts |-> <<>>]

\* mutant: only null is caught by the falsy test
Truthy_OnlyNull(config) == config.tag # "null"

\* JS truthiness of a config: null, undefined and '' are falsy
Truthy(config) ==
    \/ config.tag = "object"
    \/ config.tag = "string" /\ config.str # ""

\* mutant: the vertex source is not tested
TruthyVerts_Always(verts) == TRUE

\* JS truthiness of a vertex source: null and '' are falsy, [] is truthy
TruthyVerts(verts) ==
    \/ verts.kind = "raw"
    \/ verts.kind = "path" /\ verts.nums # <<>>

\* utils/object/GetFastValue: the own, defined property or the default
GetFastValue(f, key, defaultValue) ==
    IF f[key].has = "value" THEN f[key].v ELSE defaultValue

\* config.addToWorld, a plain property read: "undefined" when not there
ReadAddToWorld(f) ==
    IF f["addToWorld"].has = "value" THEN f["addToWorld"].v ELSE "undefined"

\* Vertices.fromPath: pairs the numbers of the path up into points
RECURSIVE FromPath(_)
FromPath(nums) ==
    IF Len(nums) < 2 THEN <<>>
    ELSE <<[x |-> nums[1], y |-> nums[2]]>> \o FromPath(SubSeq(nums, 3, Len(nums)))

\* mutant: the smaller of the two
Max_Min(a, b) == IF a > b THEN b ELSE a

\* Math.max of two numbers
Max(a, b) == IF a > b THEN a ELSE b

NoFactory == [fn |-> "none", args |-> <<>>]

\* ------------------------------------------------------------- Init
\* the arguments of a shape builder; an omitted argument is Undefined
NoArgs == [width |-> Undefined, height |-> Undefined, radius |-> Undefined,
           sides |-> Undefined, slope |-> Undefined]

NoCall == [op |-> "init", e |-> "e1", config |-> NullConfig, options |-> "undefined",
           body |-> NoBody, addToWorld |-> "undefined", add |-> FALSE,
           oldBody |-> NoBody, wasInWorld |-> FALSE, factory |-> NoFactory,
           ret |-> Null,
           oldOrigin |-> [x |-> 0, y |-> 0], oldSelf |-> Null,
           args |-> NoArgs, fails |-> "none"]

\* the state of entity e a call finds: its body, whether that body is in
\* the world and points back at an entity, and the origin
AtEntry(c, e) ==
    [c EXCEPT !.oldBody = body[e],
              !.wasInWorld = (body[e] \in world),
              !.oldOrigin = origin[e],
              !.oldSelf = IF body[e] = NoBody THEN Null ELSE gameObject[body[e]][Self]]

Init ==
    /\ body = [e \in Entities |-> NoBody]
    /\ world = {}
    /\ gameObject = [b \in Bodies |-> [i \in 1 .. MaxParts |-> Null]]
    /\ destroy = [b \in Bodies |-> Null]
    /\ parts = [b \in Bodies |-> 0]
    /\ temp = [b \in Bodies |-> FALSE]
    /\ centerOffset = [b \in Bodies |-> [x |-> 0, y |-> 0]]
    /\ vertices = [b \in Bodies |-> <<>>]
    /\ origin = [e \in Entities |-> [x |-> 0, y |-> 0]]
    /\ width = [e \in Entities |-> InitWidth(e)]
    /\ height = [e \in Entities |-> InitHeight(e)]
    /\ tempVec2 = [e \in Entities |-> InitTempVec2(e)]
    /\ nextBody = 1
    /\ pc = "idle"
    /\ call = NoCall

\* ------------------------------------------------- setExistingBody
AddToWorldArgs == {"undefined", "true", "false"}

\* mutant: an omitted addToWorld counts as false
DefaultAddToWorld_False(addToWorld) == addToWorld = "true"

\* lines 104-107: addToWorld defaults to true
DefaultAddToWorld(addToWorld) ==
    IF addToWorld = "undefined" THEN TRUE ELSE addToWorld = "true"

\* mutants: the old body is left in the world; the world is emptied
WorldAfterRemove_Keep(w, cur) == w
WorldAfterRemove_Clear(w, cur) == IF cur # NoBody THEN {} ELSE w
WorldAfterRemove_OnlyIfOther(w, cur) == IF cur # NoBody /\ cur # call.body THEN w \ {cur} ELSE w

\* lines 109-112: this.world.remove(this.body) when this.body is set
WorldAfterRemove(w, cur) == IF cur # NoBody THEN w \ {cur} ELSE w

\* mutant: a body that has a destroy closure keeps its own back-reference
GameObjectAfterParts_OnlyUnset(g, b, n, e) ==
    [g EXCEPT ![b] = [i \in 1 .. MaxParts |->
                         IF i \in 1 .. n /\ (i # Self \/ destroy[b] = Null) THEN e ELSE @[i]]]

\* lines 116-119: every part of the body points back at the Game Object
GameObjectAfterParts(g, b, n, e) ==
    [g EXCEPT ![b] = [i \in 1 .. MaxParts |-> IF i \in 1 .. n THEN e ELSE @[i]]]

\* mutant: the body is added whatever addToWorld says
WorldAfterAdd_Always(w, b, add) == w \cup {b}

\* lines 129-132: this.world.add(body) when addToWorld
WorldAfterAdd(w, b, add) == IF add THEN w \cup {b} ELSE w

\* mutant: the origin is set to the offset
OriginAfterAttach_Set(e, o, co) == IF HasOriginComponent(e) THEN co ELSE o

\* this.centerOffsetX, this.centerOffsetY: the center offset of the body the
\* Game Object holds
CenterOffsetOf(e) == centerOffset[body[e]]

\* lines 134-137: setOrigin(originX + centerOffsetX, originY + centerOffsetY)
OriginAfterAttach(e, o, co) ==
    IF HasOriginComponent(e) THEN [x |-> o.x + co.x, y |-> o.y + co.y] ELSE o

\* the origin stays within the modelled range
OriginFits(e, co) ==
    LET o == OriginAfterAttach(e, origin[e], co)
    IN  o.x <= MaxOrigin /\ o.y <= MaxOrigin

\* entry of setExistingBody(b, addToWorld) on e (lines 102-107); c carries
\* the caller's part of the call record
EnterSetExistingBody(e, b, addToWorld, c) ==
    /\ pc' = "remove"
    /\ call' = [AtEntry(c, e) EXCEPT !.e = e, !.body = b, !.addToWorld = addToWorld,
                                     !.add = DefaultAddToWorld(addToWorld),
                                     !.ret = Null]

StepRemove ==
    /\ pc = "remove"
    /\ world' = WorldAfterRemove(world, body[call.e])
    /\ pc' = "assign"
    /\ UNCHANGED <<body, gameObject, destroy, bodyAttrs, origin, entitySize, nextBody, call>>

StepAssign ==
    /\ pc = "assign"
    /\ body' = [body EXCEPT ![call.e] = call.body]
    /\ pc' = "parts"
    /\ UNCHANGED <<world, gameObject, destroy, bodyAttrs, origin, entitySize, nextBody, call>>

StepParts ==
    /\ pc = "parts"
    /\ gameObject' = GameObjectAfterParts(gameObject, call.body, parts[call.body], call.e)
    /\ pc' = "hook"
    /\ UNCHANGED <<body, world, destroy, bodyAttrs, origin, entitySize, nextBody, call>>

StepHook ==
    /\ pc = "hook"
    /\ destroy' = [destroy EXCEPT ![call.body] = call.e]
    /\ pc' = "add"
    /\ UNCHANGED <<body, world, gameObject, bodyAttrs, origin, entitySize, nextBody, call>>

StepAdd ==
    /\ pc = "add"
    /\ world' = WorldAfterAdd(world, call.body, call.add)
    /\ pc' = "origin"
    /\ UNCHANGED <<body, gameObject, destroy, bodyAttrs, origin, entitySize, nextBody, call>>

StepOrigin ==
    /\ pc = "origin"
    /\ origin' = [origin EXCEPT ![call.e] =
                     OriginAfterAttach(call.e, @, CenterOffsetOf(call.e))]
    /\ pc' = "return"
    /\ call' = [call EXCEPT !.ret = call.e]
    /\ UNCHANGED <<body, world, gameObject, destroy, bodyAttrs, entitySize, nextBody>>

\* the call returns to its caller
Return ==
    /\ pc = "return"
    /\ pc' = "idle"
    /\ call' = NoCall
    /\ UNCHANGED <<body, world, gameObject, destroy, bodyAttrs, origin, entitySize, nextBody>>

\* the library builds a body of kind k under the next unused handle
NewBody(k, verts) ==
    /\ parts' = [parts EXCEPT ![nextBody] = k.parts]
    /\ temp' = [temp EXCEPT ![nextBody] = k.temp]
    /\ centerOffset' = [centerOffset EXCEPT ![nextBody] = k.centerOffset]
    /\ vertices' = [vertices EXCEPT ![nextBody] = verts]
    /\ nextBody' = nextBody + 1

\* a caller hands setExistingBody a body it has just built
SetExistingBodyFresh(e, addToWorld, k) ==
    /\ pc = "idle"
    /\ nextBody <= MaxBodies
    /\ OriginFits(e, k.centerOffset)
    /\ NewBody(k, <<>>)
    /\ EnterSetExistingBody(e, nextBody, addToWorld,
                            [NoCall EXCEPT !.op = "setExistingBody"])
    /\ UNCHANGED <<body, world, gameObject, destroy, origin, entitySize>>

\* a caller hands setExistingBody a body the entity has held before (an
\* entity exclusively owns its bodies: handles are not shared)
SetExistingBodyAgain(e, b, addToWorld) ==
    /\ pc = "idle"
    /\ b \in Created
    /\ destroy[b] = e
    /\ OriginFits(e, centerOffset[b])
    /\ EnterSetExistingBody(e, b, addToWorld,
                            [NoCall EXCEPT !.op = "setExistingBody"])
    /\ UNCHANGED <<body, world, gameObject, destroy, bodyAttrs, origin, entitySize, nextBody>>

\* ------------------------------------------------------ body.destroy
\* lines 123-127: the closure works on _this.body, the body the Game
\* Object holds when the closure runs
WorldAfterDestroy_Keep(w, cur) == w
WorldAfterDestroy(w, cur) == w \ {cur}
GameObjectAfterDestroy(g, cur) == [g EXCEPT ![cur][Self] = Null]

Destroy(b) ==
    /\ pc = "idle"
    /\ b \in Created
    /\ destroy[b] # Null
    /\ LET e == destroy[b]
       IN  /\ world' = WorldAfterDestroy(world, body[e])
           /\ gameObject' = GameObjectAfterDestroy(gameObject, body[e])
           /\ call' = [AtEntry(NoCall, e) EXCEPT !.op = "destroy", !.e = e, !.body = b]
    /\ pc' = "return"
    /\ UNCHANGED <<body, destroy, bodyAttrs, origin, entitySize, nextBody>>

\* ------------------------------------------------------------ setBody
\* defaults of lines 183-221; slope and removeCollinear in hundredths
DefaultMaxSides        == 25
DefaultSlope           == 50
DefaultSides           == 5
DefaultRemoveCollinear == 1
DefaultMinimumArea     == 10

\* mutant: a config without type matches no case
DefaultShapeType_None == "none"

\* line 169: the type of a config that names none
DefaultShapeType == "rectangle"

\* mutant: the string is dropped and the defaults are used
ConfigObject_Defaults(config) ==
    IF config.tag = "string" THEN EmptyFields ELSE config.f

\* lines 163-167: a string config is shorthand for { type: config }
ConfigObject(config) ==
    IF config.tag = "string"
    THEN [EmptyFields EXCEPT !["type"] = Val(config.str)]
    ELSE config.f

\* lines 206-209: a string vertex source goes through Vertices.fromPath
ResolveVerts(verts) ==
    IF verts.kind = "path" THEN FromPath(verts.nums) ELSE verts.pts

\* mutants: the in-place branch is never taken; 'temp' is not looked at
HasConfiguredBody_Never(e) == FALSE
HasConfiguredBody_AnyBody(e) == body[e] # NoBody

\* line 211: this.body && !this.body.hasOwnProperty('temp')
HasConfiguredBody(e) == body[e] # NoBody /\ ~temp[body[e]]

\* lines 169-232: the collaborator call setBody makes for a truthy config
\* on e.  how: "new" (a factory builds a body), "inPlace" (Body.setVertices
\* on this.body) or "none" (body stays undefined)
Plan(e, config, options) ==
    LET f          == ConfigObject(config)
        shapeType  == GetFastValue(f, "type", DefaultShapeType)
        bodyX      == GetFastValue(f, "x", tempVec2[e].x)
        bodyY      == GetFastValue(f, "y", tempVec2[e].y)
        bodyWidth  == GetFastValue(f, "width", width[e])
        bodyHeight == GetFastValue(f, "height", height[e])
        verts      == GetFastValue(f, "verts", NullVerts)
        none       == [how |-> "none", fn |-> "none", args |-> <<>>, verts |-> <<>>]
    IN  CASE shapeType = "rectangle" ->
               [how |-> "new", fn |-> "rectangle", verts |-> <<>>,
                args |-> <<bodyX, bodyY, bodyWidth, bodyHeight, options>>]
          [] shapeType = "circle" ->
               [how |-> "new", fn |-> "circle", verts |-> <<>>,
                args |-> <<bodyX, bodyY,
                           GetFastValue(f, "radius", Max(bodyWidth, bodyHeight) \div 2),
                           options,
                           GetFastValue(f, "maxSides", DefaultMaxSides)>>]
          [] shapeType = "trapezoid" ->
               [how |-> "new", fn |-> "trapezoid", verts |-> <<>>,
                args |-> <<bodyX, bodyY, bodyWidth, bodyHeight,
                           GetFastValue(f, "slope", DefaultSlope), options>>]
          [] shapeType = "polygon" ->
               [how |-> "new", fn |-> "polygon", verts |-> <<>>,
                args |-> <<bodyX, bodyY,
                           GetFastValue(f, "sides", DefaultSides),
                           GetFastValue(f, "radius", Max(bodyWidth, bodyHeight) \div 2),
                           options>>]
          [] shapeType \in {"fromVertices", "fromVerts"} ->
               IF TruthyVerts(verts)
               THEN IF HasConfiguredBody(e)
                    THEN [how |-> "inPlace", fn |-> "setVertices",
                          verts |-> ResolveVerts(verts),
                          args |-> <<body[e], ResolveVerts(verts)>>]
                    ELSE [how |-> "new", fn |-> "fromVertices",
                          verts |-> ResolveVerts(verts),
                          args |-> <<bodyX, bodyY, ResolveVerts(verts), options,
                                     GetFastValue(f, "flagInternal", FALSE),
                                     GetFastValue(f, "removeCollinear", DefaultRemoveCollinear),
                                     GetFastValue(f, "minimumArea", DefaultMinimumArea)>>]
               ELSE none
          [] shapeType = "fromPhysicsEditor" ->
               [how |-> "new", fn |-> "parseBody", verts |-> <<>>,
                args |-> <<bodyX, bodyY, bodyWidth, bodyHeight, config>>]
          [] OTHER -> none

\* the rectangle, circle, trapezoid and polygon factories build a body of
\* one part; fromVertices and parseBody may build a compound one.  No
\* collaborator marks the body it returns 'temp'.
FactoryKinds(fn) ==
    {k \in BodyKinds : ~k.temp /\ (fn \notin {"fromVertices", "parseBody"} => k.parts = 1)}

SetBodyCall(e, config, options) ==
    [NoCall EXCEPT !.op = "setBody", !.e = e, !.config = config, !.options = options]

\* lines 155-158: a falsy config returns at once
SetBodyFalsy(e, config, options) ==
    /\ pc = "idle"
    /\ ~Truthy(config)
    /\ pc' = "return"
    /\ call' = [AtEntry(SetBodyCall(e, config, options), e) EXCEPT !.ret = e]
    /\ UNCHANGED <<body, world, gameObject, destroy, bodyAttrs, origin, entitySize, nextBody>>

\* lines 160-239, body left undefined: nothing is attached
SetBodyNone(e, config, options) ==
    /\ pc = "idle"
    /\ Truthy(config)
    /\ Plan(e, config, options).how = "none"
    /\ pc' = "return"
    /\ call' = [AtEntry(SetBodyCall(e, config, options), e) EXCEPT !.ret = e]
    /\ UNCHANGED <<body, world, gameObject, destroy, bodyAttrs, origin, entitySize, nextBody>>

\* lines 160-239, a factory builds the body, which is then attached; c is
\* the call record of the method the caller called
SetBodyNewAs(c, e, config, options, k) ==
    LET plan == Plan(e, config, options)
    IN  /\ pc = "idle"
        /\ Truthy(config)
        /\ plan.how = "new"
        /\ k \in FactoryKinds(plan.fn)
        /\ nextBody <= MaxBodies
        /\ OriginFits(e, k.centerOffset)
        /\ NewBody(k, plan.verts)
        /\ EnterSetExistingBody(e, nextBody, ReadAddToWorld(ConfigObject(config)),
               [c EXCEPT !.factory = [fn |-> plan.fn, args |-> plan.args]])
        /\ UNCHANGED <<body, world, gameObject, destroy, origin, entitySize>>

SetBodyNew(e, config, options, k) ==
    SetBodyNewAs(SetBodyCall(e, config, options), e, config, options, k)

\* lines 211-216 and 234-237: the vertices of this.body are replaced and
\* this.body is attached again
SetBodyInPlace(e, config, options) ==
    LET plan == Plan(e, config, options)
    IN  /\ pc = "idle"
        /\ Truthy(config)
        /\ plan.how = "inPlace"
        /\ OriginFits(e, centerOffset[body[e]])
        /\ vertices' = [vertices EXCEPT ![body[e]] = plan.verts]
        /\ EnterSetExistingBody(e, body[e], ReadAddToWorld(ConfigObject(config)),
               [SetBodyCall(e, config, options) EXCEPT
                   !.factory = [fn |-> plan.fn, args |-> plan.args]])
        /\ UNCHANGED <<body, world, gameObject, destroy, parts, temp, centerOffset,
                       origin, entitySize, nextBody>>

\* the configs and options callers pass
FailPoints == {"fromPath", "setVertices", "fromVertices", "circle", "polygon", "parseBody"}
PathA == <<0, 0, 4, 0, 4, 3>>
RawB  == <<[x |-> 0, y |-> 0], [x |-> 2, y |-> 0], [x |-> 2, y |-> 2], [x |-> 0, y |-> 2]>>

Obj(type) == [EmptyFields EXCEPT !["type"] = Val(type)]

FromVerticesPathA ==
    ObjectConfig([Obj("fromVertices") EXCEPT !["verts"] = Val(PathVerts(PathA))])

Configs ==
    { NullConfig, UndefinedConfig, StringConfig(""),
      StringConfig("circle"),
      ObjectConfig(EmptyFields),
      ObjectConfig([Obj("polygon") EXCEPT !["radius"] = Val(7),
                                          !["addToWorld"] = Val("true")]),
      FromVerticesPathA,
      ObjectConfig([Obj("fromVerts") EXCEPT !["verts"] = Val(RawVerts(RawB)),
                                            !["addToWorld"] = Val("false"),
                                            !["flagInternal"] = Val(TRUE),
                                            !["removeCollinear"] = Val(5),
                                            !["minimumArea"] = Val(20)]),
      ObjectConfig(Obj("fromVertices")),
      ObjectConfig([Obj("fromVerts") EXCEPT !["verts"] = Val(PathVerts(<<>>))]),
      ObjectConfig(Obj("fromPhysicsEditor")),
      ObjectConfig(Obj("hexagon")) }

\* setBody's arguments: every config without options, some with
SetBodyArgs ==
    {<<c, "undefined">> : c \in Configs}
    \cup {<<c, "options">> : c \in {NullConfig, StringConfig("circle"), FromVerticesPathA}}

\* ---------------------------------------------------- shape builders
\* mutant: the options are merged into the config
BuilderConfig_Merge(f, options) ==
    ObjectConfig(IF options = "overrides"
                 THEN [f EXCEPT !["addToWorld"] = Val("false"), !["x"] = Val(7),
                                !["y"] = Val(7), !["maxSides"] = Val(3)]
                 ELSE f)

\* lines 37, 53, 70, 88: the config is an object literal of the builder's
\* own arguments; options is handed on as setBody's second argument
BuilderConfig(f, options) == ObjectConfig(f)

\* line 37: { type: 'rectangle', width: width, height: height }
SetRectangleFields(args) ==
    [EmptyFields EXCEPT !["type"] = Val("rectangle"),
                        !["width"] = args.width, !["height"] = args.height]

\* line 53: { type: 'circle', radius: radius }
SetCircleFields(args) ==
    [EmptyFields EXCEPT !["type"] = Val("circle"), !["radius"] = args.radius]

\* mutant: radius and sides change places
SetPolygonFields_Swapped(args) ==
    [EmptyFields EXCEPT !["type"] = Val("polygon"),
                        !["sides"] = args.radius, !["radius"] = args.sides]

\* line 70: { type: 'polygon', sides: sides, radius: radius }
SetPolygonFields(args) ==
    [EmptyFields EXCEPT !["type"] = Val("polygon"),
                        !["sides"] = args.sides, !["radius"] = args.radius]

\* line 88: { type: 'trapezoid', width: width, height: height, slope: slope }
SetTrapezoidFields(args) ==
    [EmptyFields EXCEPT !["type"] = Val("trapezoid"),
                        !["width"] = args.width, !["height"] = args.height,
                        !["slope"] = args.slope]

\* lines 35-89: the builder op calls setBody with its config and options
Builder(op, e, f, args, options, k) ==
    LET config == BuilderConfig(f, options)
    IN  SetBodyNewAs([NoCall EXCEPT !.op = op, !.e = e, !.config = config,
                                    !.options = options, !.args = args],
                     e, config, options, k)

SetRectangle(e, args, options, k) ==
    /\ args.radius = Undefined /\ args.sides = Undefined /\ args.slope = Undefined
    /\ Builder("setRectangle", e, SetRectangleFields(args), args, options, k)

SetCircle(e, args, options, k) ==
    /\ args.width = Undefined /\ args.height = Undefined
    /\ args.sides = Undefined /\ args.slope = Undefined
    /\ Builder("setCircle", e, SetCircleFields(args), args, options, k)

SetPolygon(e, args, options, k) ==
    /\ args.width = Undefined /\ args.height = Undefined /\ args.slope = Undefined
    /\ Builder("setPolygon", e, SetPolygonFields(args), args, options, k)

SetTrapezoid(e, args, options, k) ==
    /\ args.radius = Undefined /\ args.sides = Undefined
    /\ Builder("setTrapezoid", e, SetTrapezoidFields(args), args, options, k)

\* the arguments callers pass to the builders: each given or omitted
BuilderArgs ==
    [width : {Undefined, Val(6)}, height : {Undefined, Val(8)},
     radius : {Undefined, Val(8)}, sides : {Undefined, Val(3)},
     slope : {Undefined, Val(25)}]

\* options: none, or { addToWorld: false, x: 7, y: 7, maxSides: 3 }
BuilderOptions == {"undefined", "overrides"}

\* configs that name one of the four shapes or no type, as strings and as
\* objects, with and without explicit sizes
ShapeConfigs ==
    { StringConfig("rectangle"), StringConfig("circle"), StringConfig("polygon"),
      StringConfig("trapezoid"), StringConfig("fromVertices"), StringConfig("hexagon"),
      StringConfig(""),
      ObjectConfig(Obj("circle")),
      ObjectConfig([Obj("circle") EXCEPT !["width"] = Val(60)]),
      ObjectConfig([Obj("circle") EXCEPT !["height"] = Val(4), !["width"] = Val(6)]),
      ObjectConfig([Obj("circle") EXCEPT !["radius"] = Val(0), !["width"] = Val(60)]),
      ObjectConfig(Obj("polygon")),
      ObjectConfig([Obj("polygon") EXCEPT !["sides"] = Val(3)]),
      ObjectConfig([Obj("polygon") EXCEPT !["radius"] = Val(7), !["height"] = Val(30)]),
      ObjectConfig([EmptyFields EXCEPT !["width"] = Val(6)]),
      ObjectConfig([EmptyFields EXCEPT !["x"] = Val(3), !["y"] = Val(4),
                                       !["height"] = Val(8),
                                       !["addToWorld"] = Val("false")]),
      ObjectConfig([EmptyFields EXCEPT !["type"] = Undefined, !["slope"] = Val(25)]) }

ShapeArgs ==
    {<<c, "undefined">> : c \in ShapeConfigs}
    \cup {<<c, "overrides">> : c \in {StringConfig("circle"),
                                      ObjectConfig([EmptyFields EXCEPT !["width"] = Val(6)])}}

\* ------------------------------------------------- a collaborator fails
\* the collaborator calls of a plan, in the order setBody makes them
Collaborators(config, plan) ==
    LET verts == GetFastValue(ConfigObject(config), "verts", NullVerts)
    IN  (IF plan.fn \in {"setVertices", "fromVertices"} /\ verts.kind = "path"
         THEN {"fromPath"} ELSE {})
        \cup (IF plan.how = "none" THEN {} ELSE {plan.fn})

\* mutant: the exception is caught and the attachment goes on
PcAfterThrow_Caught == "add"

\* lines 175-237 have no try/catch: an exception of a collaborator leaves
\* setBody at once
PcAfterThrow == "return"

\* lines 175-232, the collaborator 'fails' throws: setBody is left before
\* body is assigned; Body.setVertices may have replaced the vertices of
\* this.body before it threw
SetBodyThrows(e, config, options, fails, replaced) ==
    LET plan == Plan(e, config, options)
    IN  /\ pc = "idle"
        /\ Truthy(config)
        /\ fails \in Collaborators(config, plan)
        /\ vertices' = IF fails = "setVertices" /\ replaced
                       THEN [vertices EXCEPT ![body[e]] = plan.verts]
                       ELSE vertices
        /\ pc' = PcAfterThrow
        /\ call' = [AtEntry(SetBodyCall(e, config, options), e) EXCEPT
                       !.fails = fails, !.ret = "throw",
                       !.addToWorld = ReadAddToWorld(ConfigObject(config)),
                       !.add = DefaultAddToWorld(ReadAddToWorld(ConfigObject(config)))]
        /\ UNCHANGED <<body, world, gameObject, destroy, parts, temp, centerOffset,
                       origin, entitySize, nextBody>>

Next ==
    \/ \E e \in Entities, a \in SetBodyArgs : SetBodyFalsy(e, a[1], a[2])
    \/ \E e \in Entities, a \in SetBodyArgs : SetBodyNone(e, a[1], a[2])
    \/ \E e \in Entities, a \in SetBodyArgs, k \in BodyKinds :
          SetBodyNew(e, a[1], a[2], k)
    \/ \E e \in Entities, a \in SetBodyArgs : SetBodyInPlace(e, a[1], a[2])
    \/ \E e \in Entities, a \in AddToWorldArgs, k \in BodyKinds :
          SetExistingBodyFresh(e, a, k)
    \/ \E e \in Entities, b \in Bodies, a \in AddToWorldArgs :
          SetExistingBodyAgain(e, b, a)
    \/ StepRemove
    \/ StepAssign
    \/ StepParts
    \/ StepHook
    \/ StepAdd
    \/ StepOrigin
    \/ Return
    \/ \E b \in Bodies : Destroy(b)
    \/ \E e \in Entities, a \in SetBodyArgs, fails \in FailPoints, replaced \in BOOLEAN :
          SetBodyThrows(e, a[1], a[2], fails, replaced)

Spec == Init /\ [][Next]_vars

\* the shape builders and setBody on shape configs
NextShapes ==
    \/ \E e \in Entities, args \in BuilderArgs, o \in BuilderOptions, k \in BodyKinds :
          SetRectangle(e, args, o, k)
    \/ \E e \in Entities, args \in BuilderArgs, o \in BuilderOptions, k \in BodyKinds :
          SetCircle(e, args, o, k)
    \/ \E e \in Entities, args \in BuilderArgs, o \in BuilderOptions, k \in BodyKinds :
          SetPolygon(e, args, o, k)
    \/ \E e \in Entities, args \in BuilderArgs, o \in BuilderOptions, k \in BodyKinds :
          SetTrapezoid(e, args, o, k)
    \/ \E e \in Entities, a \in ShapeArgs : SetBodyFalsy(e, a[1], a[2])
    \/ \E e \in Entities, a \in ShapeArgs : SetBodyNone(e, a[1], a[2])
    \/ \E e \in Entities, a \in ShapeArgs, k \in BodyKinds : SetBodyNew(e, a[1], a[2], k)
    \/ StepRemove
    \/ StepAssign
    \/ StepParts
    \/ StepHook
    \/ StepAdd
    \/ StepOrigin
    \/ Return
    \/ \E b \in Bodies : Destroy(b)

SpecShapes == Init /\ [][NextShapes]_vars

\* ====================================================== properties
\* a call of setExistingBody, direct or through setBody, has run its last
\* statement
AttachReturned ==
    /\ pc = "return"
    /\ call.op \in {"setExistingBody", "setBody"}
    /\ call.body # NoBody

\* the step is the call of b's destroy closure
IsDestroyStep(b) ==
    pc = "idle" /\ pc' = "return" /\ call'.op = "destroy" /\ call'.body = b

\* the step is a call of setBody
IsSetBodyStep == pc = "idle" /\ call'.op = "setBody"

\* bodies that have been attached to e, or are being attached to it
AttachedTo(e) ==
    {b \in Created : \/ destroy[b] = e
                     \/ pc # "idle" /\ call.op # "destroy" /\ call.e = e /\ call.body = b}

\* ------------------------------------------------------------------ C1
\* C1 (as claimed): when setExistingBody returns on an entity that held a
\* body, the entity holds the body passed and the world does not contain
\* the body held before the call.
C1_OldBodyGone ==
    AttachReturned /\ call.oldBody # NoBody
        => /\ body[call.e] = call.body
           /\ call.oldBody \notin world

\* C1 (amended): when setExistingBody returns on an entity that held a
\* body, the entity holds the body passed, at most one body attached to the
\* entity is in the world, and the world does not contain the body held
\* before the call unless that body is the very body passed; it is then in
\* the world exactly when addToWorld is true or omitted.
C1_OldBodyGoneUnlessSame ==
    AttachReturned /\ call.oldBody # NoBody
        => /\ body[call.e] = call.body
           /\ AttachedTo(call.e) \cap world \subseteq {call.body}
           /\ call.oldBody # call.body => call.oldBody \notin world
           /\ call.oldBody = call.body
                  => (call.body \in world <=> call.addToWorld \in {"undefined", "true"})

C1_Witness ==
    /\ AttachReturned
    /\ call.oldBody \notin {NoBody, call.body}
    /\ call.wasInWorld
    /\ call.body \in world

\* ------------------------------------------------------------------ C2
\* C2: when the destroy closure of a body that the entity no longer holds
\* (it has been replaced) is called, the world membership and the
\* back-references of the body the entity holds now are unchanged.
C2_StaleHookHarmless ==
    [][\A a \in Bodies :
          IsDestroyStep(a) /\ body[call'.e] # a
              => LET cur == body[call'.e]
                 IN  /\ (cur \in world') = (cur \in world)
                     /\ gameObject'[cur] = gameObject[cur]]_vars

\* ------------------------------------------------------------------ C3
\* C3: in every state, the statements inside setExistingBody included, at
\* most one of the bodies attached to an entity is in the world; between
\* the removal of the old body and the addition of the new one none is.
C3_AtMostOneLive ==
    /\ \A e \in Entities : Cardinality(AttachedTo(e) \cap world) <= 1
    /\ pc \in {"assign", "parts", "hook", "add"} => AttachedTo(call.e) \cap world = {}

C3_Witness ==
    /\ pc = "add"
    /\ call.add
    /\ call.wasInWorld
    /\ call.oldBody \notin {NoBody, call.body}

\* ------------------------------------------------------------------ C4
\* C4: once attached, every part of a body keeps its back-reference until
\* the body's destroy closure is called (replacing the body does not clear
\* it), and the call of the closure clears the back-reference of every part.
C4_BackRefsClearedOnDestroy ==
    [][\A b \in Bodies :
          /\ IsDestroyStep(b) => \A i \in Parts(b) : gameObject'[b][i] = Null
          /\ ~IsDestroyStep(b)
                => \A i \in Parts(b) : gameObject[b][i] # Null => gameObject'[b][i] # Null]_vars

\* ------------------------------------------------------------------ C5
\* C5: the call of the destroy closure of the body an entity holds takes
\* that body out of the world and clears its back-reference; the body slot
\* of every other entity, and the world membership and back-references of
\* every body of another entity, are unchanged.
C5_DestroyCurrent ==
    [][\A b \in Bodies :
          IsDestroyStep(b) /\ body[call'.e] = b
              => /\ b \notin world'
                 /\ gameObject'[b][Self] = Null
                 /\ \A e \in Entities \ {call'.e} : body'[e] = body[e]
                 /\ \A o \in Bodies :
                        destroy[o] # call'.e
                            => /\ (o \in world') = (o \in world)
                               /\ gameObject'[o] = gameObject[o]
                               /\ destroy'[o] = destroy[o]]_vars

C5_Witness ==
    /\ pc = "return"
    /\ call.op = "destroy"
    /\ call.body = body[call.e]
    /\ call.wasInWorld
    /\ \E e \in Entities \ {call.e} : body[e] # NoBody /\ body[e] \in world

\* ------------------------------------------------------------------ C6
\* C6: when setExistingBody returns, called with addToWorld false, the
\* body held before is not in the world, the entity holds the body passed,
\* every part of it points back at the entity and it is not in the world;
\* called with addToWorld omitted, the body passed is in the world.
C6_AddToWorldFalse ==
    AttachReturned
        => /\ call.addToWorld = "false"
                => /\ call.oldBody # NoBody => call.oldBody \notin world
                   /\ body[call.e] = call.body
                   /\ \A i \in Parts(call.body) : gameObject[call.body][i] = call.e
                   /\ call.body \notin world
           /\ call.addToWorld = "undefined" => call.body \in world

C6_Witness ==
    /\ AttachReturned
    /\ call.addToWorld = "false"
    /\ call.oldBody \notin {NoBody, call.body}
    /\ call.wasInWorld
    /\ parts[call.body] = 2

\* ------------------------------------------------------------------ C7
\* the points the path parser makes of PathA
PointsA == <<[x |-> 0, y |-> 0], [x |-> 4, y |-> 0], [x |-> 4, y |-> 3]>>

\* C7: when setBody returns, called with a fromVertices config whose verts
\* is the path string PathA on an entity that held a body without 'temp',
\* the one collaborator call made is setVertices on that body with the
\* parsed points, the body has those vertices, no body was built, and the
\* entity holds the same body as before.
C7_Case ==
    /\ pc = "return"
    /\ call.op = "setBody"
    /\ call.ret = call.e
    /\ call.config = FromVerticesPathA
    /\ call.oldBody # NoBody
    /\ ~temp[call.oldBody]

C7_InPlace ==
    C7_Case
        => /\ call.factory = [fn |-> "setVertices", args |-> <<call.oldBody, PointsA>>]
           /\ vertices[call.oldBody] = PointsA
           /\ call.body = call.oldBody
           /\ body[call.e] = call.oldBody

C7_Witness ==
    /\ C7_Case
    /\ parts[call.oldBody] = 2
    /\ call.wasInWorld

\* ------------------------------------------------------------------ C8
\* the verts property of a config object, if it is a non-empty source
HasVertexSource(f) ==
    /\ f["verts"].has = "value"
    /\ \/ f["verts"].v.kind = "raw"
       \/ f["verts"].v.kind = "path" /\ f["verts"].v.nums # <<>>

IsFromVertices(config) ==
    /\ config.tag = "object"
    /\ config.f["type"].has = "value"
    /\ config.f["type"].v \in {"fromVertices", "fromVerts"}

\* a flag of the config, or the documented default
Flag(f, key, default) == IF f[key].has = "value" THEN f[key].v ELSE default

\* C8: when setBody returns, called with a fromVertices config that has a
\* vertex source on an entity that held no body or a body marked 'temp',
\* the one collaborator call made is the fromVertices factory, with the
\* cleanup flags of the config (defaults false, 0.01, 10); the body it
\* built is a new handle, the entity holds it, and the placeholder held
\* before is not in the world.
C8_Case ==
    /\ pc = "return"
    /\ call.op = "setBody"
    /\ call.ret = call.e
    /\ IsFromVertices(call.config)
    /\ HasVertexSource(call.config.f)
    /\ (call.oldBody # NoBody => temp[call.oldBody])

C8_FreshFromVertices ==
    C8_Case
        => /\ call.factory.fn = "fromVertices"
           /\ Len(call.factory.args) = 7
           /\ call.factory.args[5] = Flag(call.config.f, "flagInternal", FALSE)
           /\ call.factory.args[6] = Flag(call.config.f, "removeCollinear", 1)
           /\ call.factory.args[7] = Flag(call.config.f, "minimumArea", 10)
           /\ call.body = nextBody - 1
           /\ call.body # call.oldBody
           /\ body[call.e] = call.body
           /\ call.oldBody # NoBody => call.oldBody \notin world

C8_Witness ==
    /\ C8_Case
    /\ call.config = FromVerticesPathA
    /\ call.oldBody # NoBody
    /\ call.wasInWorld

\* ------------------------------------------------------------------ C9
IsFalsyConfig(config) ==
    \/ config.tag \in {"null", "undefined"}
    \/ config.tag = "string" /\ config.str = ""

\* what a call that attaches nothing leaves alone, and what it returns
NothingAttached ==
    /\ pc' = "return"
    /\ call'.ret = call'.e
    /\ call'.factory = NoFactory
    /\ call'.body = NoBody
    /\ UNCHANGED <<body, world, gameObject, destroy, origin, bodyAttrs, nextBody>>

\* C9: a call of setBody with a null, undefined or empty-string config
\* returns the entity at once: no collaborator is called, nothing is
\* attached, and body slots, world, back-references, destroy closures and
\* origins are unchanged.
C9_FalsyConfigNoOp ==
    [][IsSetBodyStep /\ IsFalsyConfig(call'.config) => NothingAttached]_vars

C9_Witness ==
    /\ pc = "return"
    /\ call.op = "setBody"
    /\ call.config = UndefinedConfig
    /\ body[call.e] # NoBody
    /\ body[call.e] \in world

\* ----------------------------------------------------------------- C10
RecognizedTypes ==
    {"rectangle", "circle", "trapezoid", "polygon", "fromVertices", "fromVerts",
     "fromPhysicsEditor"}

\* the type a config names, if it names one
NamesType(config, t) ==
    \/ config.tag = "string" /\ config.str = t
    \/ config.tag = "object" /\ config.f["type"].has = "value" /\ config.f["type"].v = t

NamesUnrecognizedType(config) ==
    /\ ~IsFalsyConfig(config)
    /\ \E t \in {"hexagon", "Circle", "fromVertex"} : NamesType(config, t)

\* C10: a call of setBody with a config that names an unrecognized type,
\* or names fromVertices / fromVerts and has no vertex source, returns the
\* entity: no collaborator is called, nothing is attached, and body slots,
\* world, back-references, destroy closures and origins are unchanged.
ProducesNoBody(config) ==
    \/ NamesUnrecognizedType(config)
    \/ IsFromVertices(config) /\ ~HasVertexSource(config.f)

C10_NoBodyNoOp ==
    [][IsSetBodyStep /\ ProducesNoBody(call'.config) => NothingAttached]_vars

C10_Witness ==
    /\ pc = "return"
    /\ call.op = "setBody"
    /\ call.config = ObjectConfig(Obj("fromVertices"))
    /\ body[call.e] # NoBody
    /\ body[call.e] \in world

\* ----------------------------------------------------------------- C11
\* a statement of setExistingBody is about to run
InSetExistingBody == pc \in {"remove", "assign", "parts", "hook", "add", "origin"}

\* C11: no statement of setExistingBody changes anything but the world
\* membership of the old and the new body, the body slot and the origin of
\* its entity, and the back-references and destroy closure of the new body:
\* sizes and positions, the bodies' own data, the body slot and origin of
\* every other entity and every other body are unchanged; the call returns
\* its entity.
C11_OnlyListedEffects ==
    [][InSetExistingBody
          => /\ UNCHANGED <<width, height, tempVec2, parts, temp, centerOffset,
                            vertices, nextBody>>
             /\ \A o \in Entities \ {call.e} : body'[o] = body[o] /\ origin'[o] = origin[o]
             /\ \A x \in Bodies \ {call.body} :
                    gameObject'[x] = gameObject[x] /\ destroy'[x] = destroy[x]
             /\ \A x \in Bodies \ {call.body, call.oldBody} : (x \in world') = (x \in world)
             /\ pc' = "return" => call'.ret = call.e]_vars

C11_Witness ==
    /\ AttachReturned
    /\ call.ret = call.e
    /\ call.body \in world
    /\ \E o \in Entities \ {call.e} :
           /\ body[o] \notin {NoBody, call.body}
           /\ body[o] \in world
           /\ gameObject[body[o]][Self] = o
           /\ destroy[body[o]] = o

\* ----------------------------------------------------------------- C14
\* C14: when setExistingBody returns on e1, which has the origin component,
\* its origin is the origin it had at the call plus the center offset of
\* the body attached, axis by axis; on e2, which has not, the origin is the
\* one it had.
C14_OriginShift ==
    AttachReturned
        => /\ call.e = "e1"
                => /\ origin["e1"].x = call.oldOrigin.x + centerOffset[call.body].x
                   /\ origin["e1"].y = call.oldOrigin.y + centerOffset[call.body].y
           /\ call.e = "e2" => origin["e2"] = call.oldOrigin

C14_Witness ==
    /\ AttachReturned
    /\ call.e = "e1"
    /\ call.oldOrigin.x > 0
    /\ call.oldOrigin.y > 0
    /\ centerOffset[call.body].x > 0

\* ----------------------------------------------------------------- C17
\* setBody returns, called with a fromVertices config that has a vertex
\* source on an entity that held a body without 'temp'
InPlaceReturned ==
    /\ pc = "return"
    /\ call.op = "setBody"
    /\ call.ret = call.e
    /\ IsFromVertices(call.config)
    /\ HasVertexSource(call.config.f)
    /\ call.oldBody # NoBody
    /\ ~temp[call.oldBody]

\* C17: when setBody returns from the in-place fromVertices branch, the
\* body attached is the body held before, it is in the world exactly when
\* the config's addToWorld is true or absent, whether or not it was in the
\* world before, its destroy closure is that of the entity, and the center
\* offset has been added to the origin once more.
C17_InPlaceReattach ==
    InPlaceReturned
        => /\ call.body = call.oldBody
           /\ body[call.e] = call.oldBody
           /\ call.addToWorld = ReadAddToWorld(call.config.f)
           /\ (call.body \in world) = (call.config.f["addToWorld"].has # "value"
                                          \/ call.config.f["addToWorld"].v = "true")
           /\ destroy[call.body] = call.e
           /\ call.e = "e1"
                => /\ origin["e1"].x = call.oldOrigin.x + centerOffset[call.body].x
                   /\ origin["e1"].y = call.oldOrigin.y + centerOffset[call.body].y

C17_Witness ==
    /\ InPlaceReturned
    /\ call.wasInWorld
    /\ call.config.f["addToWorld"].has = "value"
    /\ call.config.f["addToWorld"].v = "false"
    /\ call.body \notin world
    /\ call.e = "e1"

\* ----------------------------------------------------------------- C18
\* C18: the call of a destroy closure leaves the body slot of its entity
\* as it is (the entity still holds the body the closure worked on); and
\* when setBody returns from the in-place fromVertices branch (a vertex
\* source, a body without 'temp') on a body whose back-reference a destroy
\* closure had cleared, with addToWorld true or absent, that same body is
\* in the world and every part of it points back at the entity.
C18_DestroyedBodyRevived ==
    /\ pc = "return" /\ call.op = "destroy"
          => body[call.e] = call.oldBody /\ call.oldBody # NoBody
    /\ InPlaceReturned /\ call.oldSelf = Null /\ call.add
          => /\ body[call.e] = call.oldBody
             /\ call.oldBody \in world
             /\ \A i \in Parts(call.oldBody) : gameObject[call.oldBody][i] = call.e

C18_Witness ==
    /\ InPlaceReturned
    /\ call.oldSelf = Null
    /\ ~call.wasInWorld
    /\ call.add
    /\ call.oldBody \in world

\* ----------------------------------------------------------------- C15
\* C15: when a collaborator called by setBody throws, the exception leaves
\* setBody as it is (the call ends with the throw, not with a return of the
\* entity), and neither that step nor any later step of the call changes a
\* body slot, the world, a back-reference, a destroy closure or an origin.
C15_FailurePropagates ==
    [][/\ IsSetBodyStep /\ call'.fails # "none"
          => /\ pc' = "return"
             /\ call'.ret = "throw"
             /\ call'.body = NoBody
             /\ UNCHANGED <<body, world, gameObject, destroy, origin>>
       /\ call.fails # "none"
          => /\ pc' = "idle"
             /\ UNCHANGED <<body, world, gameObject, destroy, origin>>]_vars

C15_Witness ==
    /\ pc = "return"
    /\ call.op = "setBody"
    /\ call.fails = "setVertices"
    /\ call.ret = "throw"
    /\ call.wasInWorld
    /\ body[call.e] = call.oldBody
    /\ call.oldBody \in world
    /\ destroy[call.oldBody] = call.e

\* ----------------------------------------------------------------- C12
Builders == {"setRectangle", "setCircle", "setPolygon", "setTrapezoid"}

\* a shape builder returns
BuilderReturned == pc = "return" /\ call.op \in Builders

\* the property of a config record for a builder argument: the argument if
\* it was given, no property if it was omitted
Given(arg) == IF arg.has = "value" THEN arg ELSE Absent

\* the config record that corresponds to a builder call
DirectConfig(c) ==
    ObjectConfig(
        CASE c.op = "setRectangle" ->
               [EmptyFields EXCEPT !["type"] = Val("rectangle"),
                                   !["width"] = Given(c.args.width),
                                   !["height"] = Given(c.args.height)]
          [] c.op = "setCircle" ->
               [EmptyFields EXCEPT !["type"] = Val("circle"),
                                   !["radius"] = Given(c.args.radius)]
          [] c.op = "setPolygon" ->
               [EmptyFields EXCEPT !["type"] = Val("polygon"),
                                   !["radius"] = Given(c.args.radius),
                                   !["sides"] = Given(c.args.sides)]
          [] c.op = "setTrapezoid" ->
               [EmptyFields EXCEPT !["type"] = Val("trapezoid"),
                                   !["width"] = Given(c.args.width),
                                   !["height"] = Given(c.args.height),
                                   !["slope"] = Given(c.args.slope)]
          [] OTHER -> EmptyFields)

\* C12: when a shape builder returns, whatever arguments were given or
\* omitted, the factory call that was made is the call setBody makes for
\* the corresponding config record with the same options, the addToWorld
\* flag passed to setExistingBody is that of the record, and the body built
\* is attached as setBody attaches it: the entity holds it, it is in the
\* world, and the entity is returned.
C12_BuilderEquivalence ==
    BuilderReturned
        => LET direct == DirectConfig(call)
               plan   == Plan(call.e, direct, call.options)
           IN  /\ plan.how = "new"
               /\ call.factory = [fn |-> plan.fn, args |-> plan.args]
               /\ call.addToWorld = ReadAddToWorld(direct.f)
               /\ call.add = DefaultAddToWorld(ReadAddToWorld(direct.f))
               /\ body[call.e] = call.body
               /\ (call.body \in world) = call.add
               /\ call.ret = call.e

C12_Witness ==
    /\ BuilderReturned
    /\ call.op = "setPolygon"
    /\ call.args.radius = Val(8)
    /\ call.args.sides = Undefined
    /\ call.factory.fn = "polygon"
    /\ call.factory.args[3] = 5
    /\ call.factory.args[4] = 8

\* ----------------------------------------------------------------- C13
\* setBody returns, called with a config that names the shape kind
ShapeReturned(kind) ==
    /\ pc = "return"
    /\ call.op = "setBody"
    /\ call.ret = call.e
    /\ \/ call.config.tag = "string" /\ call.config.str = kind
       \/ call.config.tag = "object" /\ call.config.f["type"] = Val(kind)

\* half of the larger of two even numbers
HalfOfLarger(a, b) == CHOOSE r \in 0 .. 100 : r + r = (IF a >= b THEN a ELSE b)

\* the radius the claim gives a config: its own, or half the larger of the
\* width and height, each the config's own or the entity's
ClaimedRadius(e, f) ==
    Flag(f, "radius", HalfOfLarger(Flag(f, "width", width[e]), Flag(f, "height", height[e])))

\* C13: the radius passed to the circle and polygon factories is the
\* config's radius if it has one, and otherwise half the larger of width
\* and height, each taken from the config if it has it and from the entity
\* if not (a circle config without sizes on an entity of 40 by 20 gets
\* radius 20); the sides passed to the polygon factory are the config's
\* sides if it has them and 5 otherwise (a polygon config without sides and
\* sizes on an entity of 10 by 10 gets 5 sides and radius 5).
C13_RadiusAndSides ==
    /\ ShapeReturned("circle")
          => /\ call.factory.fn = "circle"
             /\ call.factory.args[3] = ClaimedRadius(call.e, call.config.f)
             /\ (width[call.e] = 40 /\ height[call.e] = 20
                    /\ call.config.f["radius"] = Absent /\ call.config.f["width"] = Absent
                    /\ call.config.f["height"] = Absent)
                   => call.factory.args[3] = 20
    /\ ShapeReturned("polygon")
          => /\ call.factory.fn = "polygon"
             /\ call.factory.args[3] = Flag(call.config.f, "sides", 5)
             /\ call.factory.args[4] = ClaimedRadius(call.e, call.config.f)
             /\ (width[call.e] = 10 /\ height[call.e] = 10
                    /\ call.config.f["radius"] = Absent /\ call.config.f["sides"] = Absent
                    /\ call.config.f["width"] = Absent /\ call.config.f["height"] = Absent)
                   => call.factory.args[3] = 5 /\ call.factory.args[4] = 5

C13_Witness ==
    /\ ShapeReturned("circle")
    /\ call.config = ObjectConfig(Obj("circle"))
    /\ width[call.e] = 40
    /\ height[call.e] = 20
    /\ call.factory.args[3] = 20

\* ----------------------------------------------------------------- C16
\* C16: when setBody returns, called with a string s, it has done what it
\* does for the record { type: s }: if that record produces no body, no
\* collaborator was called and nothing was attached; otherwise the factory
\* call is the one made for the record, setExistingBody was given an
\* undefined addToWorld, and the body built is held by the entity and in
\* the world.
C16_StringShorthand ==
    (pc = "return" /\ call.op = "setBody" /\ call.config.tag = "string")
        => LET plan == Plan(call.e, ObjectConfig(Obj(call.config.str)), call.options)
           IN  /\ call.ret = call.e
               /\ plan.how = "none"
                     => /\ call.factory = NoFactory
                        /\ call.body = NoBody
                        /\ body[call.e] = call.oldBody
               /\ plan.how # "none"
                     => /\ call.factory = [fn |-> plan.fn, args |-> plan.args]
                        /\ call.addToWorld = "undefined"
                        /\ body[call.e] = call.body
                        /\ call.body \in world

C16_Witness ==
    /\ pc = "return"
    /\ call.op = "setBody"
    /\ call.config = StringConfig("polygon")
    /\ call.factory.fn = "polygon"
    /\ call.body \in world

\* ----------------------------------------------------------------- C19
\* C19: when a shape builder returns, the body it built is held by the
\* entity and is in the world, setExistingBody was given an undefined
\* addToWorld, and the position (and, for a circle, maxSides) passed to
\* the factory are the entity's position (and 25), also when options holds
\* addToWorld false, x, y and maxSides; options is passed to the factory.
C19_BuilderBodiesLive ==
    BuilderReturned
        => /\ body[call.e] = call.body
           /\ call.body \in world
           /\ call.addToWorld = "undefined"
           /\ call.config.f["addToWorld"] = Absent
           /\ call.factory.args[1] = tempVec2[call.e].x
           /\ call.factory.args[2] = tempVec2[call.e].y
           /\ call.op = "setCircle"
                 => call.factory.args[4] = call.options /\ call.factory.args[5] = 25
           /\ call.op = "setRectangle" => call.factory.args[5] = call.options
           /\ call.op = "setPolygon" => call.factory.args[5] = call.options
           /\ call.op = "setTrapezoid" => call.factory.args[6] = call.options

C19_Witness ==
    /\ BuilderReturned
    /\ call.op = "setCircle"
    /\ call.options = "overrides"
    /\ call.body \in world
    /\ call.factory.args[1] = 100

\* ----------------------------------------------------------------- C20
\* setBody returns, called with a config object that has properties but no
\* type
NoTypeReturned ==
    /\ pc = "return"
    /\ call.op = "setBody"
    /\ call.ret = call.e
    /\ call.config.tag = "object"
    /\ call.config.f["type"].has # "value"
    /\ call.config.f # EmptyFields

\* C20: when setBody returns, called with a config object that has
\* properties but no type, the rectangle factory was called with the
\* config's x, y, width and height, each defaulting to the entity's, the
\* body it built is a new handle the entity holds, in the world unless the
\* config's addToWorld is false, and the body held before is not in the
\* world.
C20_NoTypeIsRectangle ==
    NoTypeReturned
        => /\ call.factory =
                 [fn |-> "rectangle",
                  args |-> <<Flag(call.config.f, "x", tempVec2[call.e].x),
                             Flag(call.config.f, "y", tempVec2[call.e].y),
                             Flag(call.config.f, "width", width[call.e]),
                             Flag(call.config.f, "height", height[call.e]),
                             call.options>>]
           /\ call.body \notin {NoBody, call.oldBody}
           /\ body[call.e] = call.body
           /\ (call.body \in world) = (Flag(call.config.f, "addToWorld", "true") = "true")
           /\ call.oldBody \notin world

C20_Witness ==
    /\ NoTypeReturned
    /\ call.config = ObjectConfig([EmptyFields EXCEPT !["width"] = Val(6)])
    /\ call.factory.args = <<100, 200, 6, 20, "undefined">>
    /\ call.oldBody # NoBody
    /\ call.wasInWorld
    /\ call.body \in world
====
